---- MODULE Spec2Model ----
(***************************************************************************)
(* Personal notes manager (notes_frontend/src/App.js): the App component's *)
(* state (notes, selectedId, query, addMode), NoteEditor's local title and *)
(* content, the localStorage entry "notes:v1", the event handlers and the  *)
(* effects React runs after the render that follows a handler.             *)
(*                                                                         *)
(* Strings are sequences of one-character strings.  A handler is one       *)
(* action; it leaves in `pending` the effect dependencies it changed, and  *)
(* the action Effects is the flush of the effects whose dependencies       *)
(* changed (lines 50-52 and 64-73), which React runs after the handler has *)
(* returned and the component has re-rendered.  No event is dispatched     *)
(* while effects are pending.  sidebarOpen (lines 44, 54-61, 143, 157-159) *)
(* is view state no other state depends on and is left out.                *)
(***************************************************************************)
EXTENDS Integers, Sequences, FiniteSets, TLC

\* ------------------------------------------------------------------ bounds
\* The collection holds at most MaxNotes notes: handleAddNote is not taken
\* beyond that.
MaxNotes == 2
\* Date.now() ranges over 1..MaxClock.
MaxClock == 3

\* ----------------------------------------------------------------- strings
Upper == <<"A","B","C","D","E","F","G","H","I","J","K","L","M",
           "N","O","P","Q","R","S","T","U","V","W","X","Y","Z">>
Lower == <<"a","b","c","d","e","f","g","h","i","j","k","l","m",
           "n","o","p","q","r","s","t","u","v","w","x","y","z">>
Digits36 == <<"0","1","2","3","4","5","6","7","8","9">> \o Lower

\* String.prototype.toLowerCase on one character, then on a string.
UpperToLower == [c \in {Upper[i] : i \in 1..26} |-> Lower[CHOOSE i \in 1..26 : Upper[i] = c]]

lowerChar(c) == IF c \in DOMAIN UpperToLower THEN UpperToLower[c] ELSE c

toLowerCase(s) == [i \in 1..Len(s) |-> lowerChar(s[i])]

\* String.prototype.includes: q occurs in s as a contiguous substring.
includes(s, q) ==
  \E i \in 0..(Len(s) - Len(q)) : SubSeq(s, i + 1, i + Len(q)) = q

\* Number.prototype.toString(radix) for a non-negative integer.
RECURSIVE numToString(_, _)
numToString(n, radix) ==
  IF n < radix
    THEN <<Digits36[n + 1]>>
    ELSE Append(numToString(n \div radix, radix), Digits36[(n % radix) + 1])

\* ------------------------------------------------------------- program text
\* The title handleAddNote gives a new note, "Untitled Note".
UntitledNote == <<"U","n","t","i","t","l","e","d"," ","N","o","t","e">>

\* null, for selectedId (no id is the empty string: every id starts "note_").
Null == <<>>

\* The values of Math.random().toString(36).substr(2, 9) the model draws from.
\* With one value, two ids differ exactly when their Date.now() parts differ:
\* two notes created in the same millisecond get the same id, the case
\* generateId leaves to chance.
RandStrs == {<<"k","7">>}

\* The strings typed into the title input or the content textarea.
EditVals == {<<"a","B","\"","\\","\n">>}

\* The strings typed into the search box.
QueryVals == {<<>>, <<"A","b">>, <<"n","O">>}

\* generateId: "note_" + random + "_" + Date.now().toString(36)
generateId(rand, t) ==
  <<"n","o","t","e","_">> \o rand \o <<"_">> \o numToString(t, 36)

\* ------------------------------------------------------------ getFilteredNotes
\* Array.prototype.sort with (a, b) => b.updated - a.updated: a stable sort,
\* descending by `updated`; n goes after every element that is not older.
RECURSIVE insertDesc(_, _)
insertDesc(n, sorted) ==
  IF sorted = <<>> THEN <<n>>
  ELSE IF Head(sorted).updated >= n.updated
    THEN <<Head(sorted)>> \o insertDesc(n, Tail(sorted))
    ELSE <<n>> \o sorted

RECURSIVE sortByUpdatedDesc(_)
sortByUpdatedDesc(arr) ==
  IF arr = <<>> THEN <<>>
  ELSE insertDesc(arr[Len(arr)], sortByUpdatedDesc(SubSeq(arr, 1, Len(arr) - 1)))

\* A faulty variant of matchesQuery: the content is not searched.
matchesTitleOnly(n, q) == includes(toLowerCase(n.title), q)

\* The predicate of the filter of lines 80-84.
matchesQuery(n, q) ==
  \/ includes(toLowerCase(n.title), q)
  \/ includes(toLowerCase(n.content), q)

\* A faulty variant of getFilteredNotes: notes with the same `updated` come
\* out in the reverse of their stored order.
getFilteredNotesTiesReversed(ns, qry) ==
  LET reversed == [i \in 1..Len(ns) |-> ns[Len(ns) + 1 - i]]
  IN  IF qry = <<>>
        THEN sortByUpdatedDesc(reversed)
        ELSE sortByUpdatedDesc(SelectSeq(reversed, LAMBDA n : matchesQuery(n, toLowerCase(qry))))

\* getFilteredNotes, on the notes and the query of the current render.
getFilteredNotes(ns, qry) ==
  IF qry = <<>>
    THEN sortByUpdatedDesc(ns)
    ELSE sortByUpdatedDesc(SelectSeq(ns, LAMBDA n : matchesQuery(n, toLowerCase(qry))))

\* A faulty variant of notesAfterFiltering: line 77 without slice(), so that sort
\* reorders the state array itself.
sortsNotesInPlace(ns, qry) == IF qry = <<>> THEN sortByUpdatedDesc(ns) ELSE ns

\* The state array after a call of getFilteredNotes: line 77 sorts
\* notes.slice(), a copy, and lines 79-85 sort the array filter returns.
notesAfterFiltering(ns, qry) == ns

\* ids of an array of notes, in order.
idsOf(arr) == [i \in 1..Len(arr) |-> arr[i].id]

inSeq(x, seq) == \E i \in 1..Len(seq) : seq[i] = x

\* ------------------------------------------------------------------- JSON
\* JSON.stringify of a string: quoted, with ", \ and newline escaped.
RECURSIVE escapeChars(_)
escapeChars(s) ==
  IF s = <<>> THEN <<>>
  ELSE LET c == Head(s)
           e == IF c = "\"" THEN <<"\\", "\"">>
                ELSE IF c = "\\" THEN <<"\\", "\\">>
                ELSE IF c = "\n" THEN <<"\\", "n">>
                ELSE <<c>>
       IN  e \o escapeChars(Tail(s))

\* A faulty variant of quoteString: a backslash is written as it is.
RECURSIVE escapeQuotesOnly(_)
escapeQuotesOnly(s) ==
  IF s = <<>> THEN <<>>
  ELSE LET c == Head(s)
           e == IF c = "\"" THEN <<"\\", "\"">>
                ELSE IF c = "\n" THEN <<"\\", "n">>
                ELSE <<c>>
       IN  e \o escapeQuotesOnly(Tail(s))

quoteStringKeepingBackslash(s) == <<"\"">> \o escapeQuotesOnly(s) \o <<"\"">>

quoteString(s) == <<"\"">> \o escapeChars(s) \o <<"\"">>

strChars(str) ==
  CASE str = "id"      -> <<"i","d">>
    [] str = "title"   -> <<"t","i","t","l","e">>
    [] str = "content" -> <<"c","o","n","t","e","n","t">>
    [] str = "updated" -> <<"u","p","d","a","t","e","d">>

\* JSON.stringify of one note: the keys in the order handleAddNote wrote them.
stringifyNote(n) ==
  <<"{">> \o quoteString(strChars("id")) \o <<":">> \o quoteString(n.id)
    \o <<",">> \o quoteString(strChars("title")) \o <<":">> \o quoteString(n.title)
    \o <<",">> \o quoteString(strChars("content")) \o <<":">> \o quoteString(n.content)
    \o <<",">> \o quoteString(strChars("updated")) \o <<":">> \o numToString(n.updated, 10)
    \o <<"}">>

RECURSIVE stringifyElems(_)
stringifyElems(arr) ==
  IF arr = <<>> THEN <<>>
  ELSE IF Len(arr) = 1 THEN stringifyNote(arr[1])
  ELSE stringifyNote(arr[1]) \o <<",">> \o stringifyElems(Tail(arr))

\* JSON.stringify(notes)
JSONstringify(arr) == <<"[">> \o stringifyElems(arr) \o <<"]">>

\* JSON.parse, by recursive descent; each parser returns the value read and
\* the position after it.
RECURSIVE scanString(_, _, _)
scanString(t, p, acc) ==
  IF t[p] = "\"" THEN [val |-> acc, pos |-> p + 1]
  ELSE IF t[p] = "\\"
    THEN scanString(t, p + 2, Append(acc, IF t[p + 1] = "n" THEN "\n" ELSE t[p + 1]))
    ELSE scanString(t, p + 1, Append(acc, t[p]))

parseString(t, p) == scanString(t, p + 1, <<>>)

DigitValues == [c \in {Digits36[i] : i \in 1..10} |-> (CHOOSE i \in 1..10 : Digits36[i] = c) - 1]

digitValue(c) == DigitValues[c]

isDigit(c) == c \in DOMAIN DigitValues

RECURSIVE scanNumber(_, _, _)
scanNumber(t, p, acc) ==
  IF p <= Len(t) /\ isDigit(t[p])
    THEN scanNumber(t, p + 1, acc * 10 + digitValue(t[p]))
    ELSE [val |-> acc, pos |-> p]

parseValue(t, p) ==
  IF t[p] = "\"" THEN parseString(t, p) ELSE scanNumber(t, p, 0)

\* The members of an object, from the first key at p to the closing brace.
RECURSIVE parseMembers(_, _, _)
parseMembers(t, p, acc) ==
  LET k == parseString(t, p)
      v == parseValue(t, k.pos + 1)
      obj == (k.val :> v.val) @@ acc
  IN  IF t[v.pos] = ","
        THEN parseMembers(t, v.pos + 1, obj)
        ELSE [val |-> obj, pos |-> v.pos + 1]

parseNote(t, p) ==
  LET m == parseMembers(t, p + 1, <<>>)
  IN  [val |-> [id      |-> m.val[strChars("id")],
                title   |-> m.val[strChars("title")],
                content |-> m.val[strChars("content")],
                updated |-> m.val[strChars("updated")]],
       pos |-> m.pos]

RECURSIVE parseElems(_, _, _)
parseElems(t, p, acc) ==
  IF t[p] = "]" THEN acc
  ELSE LET n == parseNote(t, p)
       IN  parseElems(t, IF t[n.pos] = "," THEN n.pos + 1 ELSE n.pos,
                      Append(acc, n.val))

\* JSON.parse(saved), for a text JSON.stringify(notes) wrote.
JSONparse(t) == parseElems(t, 2, <<>>)

\* ------------------------------------------------------------------ state
VARIABLES
  notes,         \* useState, line 30: array of [id, title, content, updated]
  selectedId,    \* useState, line 38: an id or Null
  query,         \* useState, line 41
  addMode,       \* useState, line 47
  localStorage,  \* the entry "notes:v1": [has, text]
  now,           \* the last reading of Date.now(); the clock does not go back
  pending,       \* the effect dependencies changed by the last render
  event,         \* the event whose effects are pending: [op, id, next]
  startSel,      \* while addMode: selectedId when handleStartAdd set addMode
  editor         \* NoteEditor's state: [id, title, content]; id is the note.id
                 \* its effect last ran for, Null while it is not mounted

vars == <<notes, selectedId, query, addMode, localStorage, now, pending, event, startSel, editor>>

Fields == {"title", "content"}

Ev(op, id, next) == [op |-> op, id |-> id, next |-> next]

\* No effects are pending: the last event has been handled completely.
NoEvent == Ev("none", Null, Null)

\* Lines 30-35: the initial value of notes on a mount.
loadNotes(storage) ==
  IF storage.has /\ storage.text # <<>> THEN JSONparse(storage.text) ELSE <<>>

\* A faulty variant of persistNotes: the displayed order is saved, not the stored one.
persistSortedView(ns) == [has |-> TRUE, text |-> JSONstringify(sortByUpdatedDesc(ns))]

\* Lines 50-52: localStorage.setItem("notes:v1", JSON.stringify(notes)).
persistNotes(ns) == [has |-> TRUE, text |-> JSONstringify(ns)]

\* A faulty variant of fallbackSelection: the first note of the collection is picked,
\* not the first of the filtered view.
fallbackToFirstStored(ns, qry, sel) ==
  LET ids == idsOf(getFilteredNotes(ns, qry))
  IN  IF Len(ids) = 0 THEN Null
      ELSE IF ~inSeq(sel, ids) THEN ns[1].id
      ELSE sel

\* A faulty variant of fallbackSelection: the selection is cleared for an
\* empty view and is otherwise left as it is.
fallbackOnlyWhenEmpty(ns, qry, sel) ==
  IF Len(idsOf(getFilteredNotes(ns, qry))) = 0 THEN Null ELSE sel

\* Lines 64-73: the selectedId the selection effect leaves.
fallbackSelection(ns, qry, sel) ==
  LET ids == idsOf(getFilteredNotes(ns, qry))
  IN  IF Len(ids) = 0 THEN Null
      ELSE IF ~inSeq(sel, ids) THEN ids[1]
      ELSE sel

\* Lines 92-97: the note handleAddNote builds.
newNote(newId, created) ==
  [id |-> newId, title |-> UntitledNote, content |-> <<>>, updated |-> created]

\* A faulty variant of addedNotes: the new note is put last.
appendedNotes(ns, note) == Append(ns, note)

\* Line 98: [note, ...notes].
addedNotes(ns, note) == <<note>> \o ns

\* A faulty variant of patchNote: `updated` is not stamped.
patchNoteKeepingStamp(n, field, value, t) ==
  IF field = "title" THEN [n EXCEPT !.title = value] ELSE [n EXCEPT !.content = value]

\* Line 107: { ...n, [field]: value, updated: Date.now() }.
patchNote(n, field, value, t) ==
  IF field = "title"
    THEN [n EXCEPT !.title = value, !.updated = t]
    ELSE [n EXCEPT !.content = value, !.updated = t]

\* Lines 105-109: the updater handleEditNote passes to setNotes.
editedNotes(curr, id, field, value, t) ==
  [i \in 1..Len(curr) |->
     IF curr[i].id = id THEN patchNote(curr[i], field, value, t) ELSE curr[i]]

\* Line 115: notes.findIndex((n) => n.id === id), 1-based; 0 when absent.
findIndex(ns, id) ==
  IF \E i \in 1..Len(ns) : ns[i].id = id
    THEN CHOOSE i \in 1..Len(ns) :
           ns[i].id = id /\ \A j \in 1..(i - 1) : ns[j].id # id
    ELSE 0

\* Lines 116-124: the id handleDeleteNote selects.
nextSelected(ns, id) ==
  LET idx == findIndex(ns, id)
  IN  IF Len(ns) > 1
        THEN IF idx = Len(ns) THEN ns[idx - 1].id ELSE ns[idx + 1].id
        ELSE Null

\* Line 125: curr.filter((n) => n.id !== id).
removedNotes(curr, id) == SelectSeq(curr, LAMBDA n : n.id # id)

\* Line 135: notes.find((n) => n.id === selectedId) finds a note.
hasSelectedNote == \E i \in 1..Len(notes) : notes[i].id = selectedId

\* Lines 244 and 268: the editor is rendered.
editorShown == ~addMode /\ hasSelectedNote

idle == pending = {}

\* NoteEditor is not mounted.
NoEditor == [id |-> Null, title |-> <<>>, content |-> <<>>]

\* Line 135: notes.find((n) => n.id === selectedId), when it finds a note.
selectedNote(ns, sel) == ns[findIndex(ns, sel)]

\* Lines 244-276 and 321-322: NoteEditor after a render of App. It is
\* rendered for selectedNote outside the Creating mode; a NoteEditor that
\* was not there is mounted with the note's title and content (and its
\* effect runs for that note), one that was there keeps its state.
renderEditor(ed, ns, sel, am) ==
  IF am \/ findIndex(ns, sel) = 0 THEN NoEditor
  ELSE IF ed.id = Null
    THEN LET note == selectedNote(ns, sel)
         IN  [id |-> note.id, title |-> note.title, content |-> note.content]
    ELSE ed

\* A faulty variant of editorEffect: the effect runs on the mount only.
editorEffectOnMountOnly(ed, ns, sel) == ed

\* Lines 325-328: NoteEditor's effect, which runs when note.id has changed.
editorEffect(ed, ns, sel) ==
  IF ed.id # Null /\ ed.id # selectedNote(ns, sel).id
    THEN LET note == selectedNote(ns, sel)
         IN  [id |-> note.id, title |-> note.title, content |-> note.content]
    ELSE ed

\* A render of App that changes no dependency of App's effects, and the
\* flush of NoteEditor's effect after it.
syncEditor(ed, ns, sel, am) == editorEffect(renderEditor(ed, ns, sel, am), ns, sel)

\* Lines 331 and 336: setTitle(value) or setContent(value).
typedEditor(ed, field, value) ==
  IF field = "title" THEN [ed EXCEPT !.title = value] ELSE [ed EXCEPT !.content = value]

\* ------------------------------------------------------------------ actions
Init ==
  /\ localStorage = [has |-> FALSE, text |-> <<>>]
  /\ notes = loadNotes(localStorage)
  /\ selectedId = Null
  /\ query = <<>>
  /\ addMode = FALSE
  /\ now = 1
  /\ pending = {"notes", "query"}
  /\ event = Ev("mount", Null, Null)
  /\ startSel = Null
  /\ editor = renderEditor(NoEditor, notes, selectedId, addMode)

\* A fresh mount of App (a reload of the page): lines 30-47, after which every
\* effect runs.
Mount ==
  /\ idle
  /\ notes' = loadNotes(localStorage)
  /\ selectedId' = Null
  /\ query' = <<>>
  /\ addMode' = FALSE
  /\ pending' = {"notes", "query"}
  /\ event' = Ev("mount", Null, Null)
  /\ startSel' = Null
  /\ UNCHANGED <<localStorage, now>>
  /\ editor' = renderEditor(NoEditor, notes', selectedId', addMode')

\* The flush of the effects of lines 325-328, 50-52 and 64-73, in that order
\* (a child's effects run before its parent's), then the render the selection
\* effect causes and the flush of NoteEditor's effect after it.
Effects ==
  /\ ~idle
  /\ localStorage' = IF "notes" \in pending THEN persistNotes(notes) ELSE localStorage
  /\ notes' = notesAfterFiltering(notes, query)
  /\ selectedId' = fallbackSelection(notes, query, selectedId)
  /\ pending' = {}
  /\ event' = NoEvent
  /\ UNCHANGED <<query, addMode, now, startSel>>
  /\ editor' = syncEditor(editorEffect(editor, notes, selectedId),
                          notes', selectedId', addMode')

\* handleStartAdd (the "+ New" buttons, lines 176 and 293).
handleStartAdd ==
  /\ idle
  /\ addMode' = TRUE
  /\ startSel' = IF addMode THEN startSel ELSE selectedId
  /\ UNCHANGED <<notes, selectedId, query, localStorage, now, pending, event>>
  /\ editor' = syncEditor(editor, notes', selectedId', addMode')

\* A faulty variant of handleCancelAdd: the cancel also clears the selection.
handleCancelAddClearingSelection ==
  /\ idle
  /\ addMode
  /\ addMode' = FALSE
  /\ selectedId' = Null
  /\ startSel' = Null
  /\ UNCHANGED <<notes, query, localStorage, now, pending, event>>
  /\ editor' = syncEditor(editor, notes', selectedId', addMode')

\* handleCancelAdd (the Cancel button, rendered in addMode, line 262).
handleCancelAdd ==
  /\ idle
  /\ addMode
  /\ addMode' = FALSE
  /\ startSel' = Null
  /\ UNCHANGED <<notes, selectedId, query, localStorage, now, pending, event>>
  /\ editor' = syncEditor(editor, notes', selectedId', addMode')

\* handleAddNote (the Create Note button, rendered in addMode, line 251).
handleAddNote(rand, t) ==
  /\ idle
  /\ addMode
  /\ Len(notes) < MaxNotes
  /\ now' = t
  /\ LET newId == generateId(rand, t)
     IN  /\ notes' = addedNotes(notes, newNote(newId, t))
         /\ selectedId' = newId
         /\ event' = Ev("addNote", newId, Null)
  /\ addMode' = FALSE
  /\ startSel' = Null
  /\ pending' = {"notes"}
  /\ UNCHANGED <<query, localStorage>>
  /\ editor' = renderEditor(editor, notes', selectedId', addMode')

\* handleEditNote, called by NoteEditor (lines 330-338) with the id of the
\* note it shows.
handleEditNote(id, field, value, t) ==
  /\ idle
  /\ editorShown
  /\ id = selectedId
  /\ now' = t
  /\ notes' = editedNotes(notes, id, field, value, t)
  /\ event' = Ev("editNote", id, Null)
  /\ pending' = {"notes"}
  /\ UNCHANGED <<selectedId, query, addMode, localStorage, startSel>>
  /\ editor' = renderEditor(typedEditor(editor, field, value),
                             notes', selectedId', addMode')

\* handleDeleteNote, called by NoteEditor (line 368) with the id of the note
\* it shows; confirmed is the answer of window.confirm.
handleDeleteNote(id, confirmed) ==
  /\ idle
  /\ editorShown
  /\ id = selectedId
  /\ IF ~confirmed
       THEN UNCHANGED <<notes, selectedId, pending, event, editor>>
       ELSE /\ notes' = removedNotes(notes, id)
            /\ selectedId' = nextSelected(notes, id)
            /\ event' = Ev("deleteNote", id, nextSelected(notes, id))
            /\ pending' = {"notes"}
            /\ editor' = renderEditor(editor, removedNotes(notes, id),
                                       nextSelected(notes, id), addMode)
  /\ UNCHANGED <<query, addMode, localStorage, now, startSel>>

\* handleSearch (the search box, line 187): a state change, and a render,
\* only if the value differs.
handleSearch(value) ==
  /\ idle
  /\ query' = value
  /\ pending' = IF value # query THEN {"query"} ELSE {}
  /\ event' = IF value # query THEN Ev("search", Null, Null) ELSE NoEvent
  /\ UNCHANGED <<notes, selectedId, addMode, localStorage, now, startSel>>
  /\ editor' = renderEditor(editor, notes', selectedId', addMode')

\* handleSelectNote (a click on an entry of the list, line 227).
handleSelectNote(id) ==
  /\ idle
  /\ inSeq(id, idsOf(getFilteredNotes(notes, query)))
  /\ selectedId' = id
  /\ UNCHANGED <<notes, query, addMode, localStorage, now, pending, event, startSel>>
  /\ editor' = syncEditor(editor, notes', selectedId', addMode')

\* The readings Date.now() can give next: the last one or a later one.
Clock == now..MaxClock

Next ==
  \/ Mount
  \/ Effects
  \/ handleStartAdd
  \/ handleCancelAdd
  \/ \E rand \in RandStrs, t \in Clock : handleAddNote(rand, t)
  \/ \E field \in Fields, value \in EditVals, t \in Clock :
       handleEditNote(selectedId, field, value, t)
  \/ \E confirmed \in BOOLEAN : handleDeleteNote(selectedId, confirmed)
  \/ \E value \in QueryVals : handleSearch(value)
  \/ \E i \in 1..Len(notes) : handleSelectNote(notes[i].id)

Spec == Init /\ [][Next]_vars

\* ------------------------------------------------------------------ steps
\* The step that flushes the pending effects.
EffectsStep == ~idle /\ pending' = {}

\* A fresh mount: the only step that leaves both dependencies changed.
MountStep == idle /\ pending' = {"notes", "query"}

\* A step of handleEditNote: the only handler that leaves event "editNote".
EditStep == idle /\ event'.op = "editNote"

\* A step of handleCancelAdd: addMode is cleared and no render is pending
\* (handleAddNote and Mount leave effects pending).
CancelStep == idle /\ addMode /\ ~addMode' /\ pending' = {}

\* A step of handleStartAdd that enters the Creating mode.
StartStep == idle /\ ~addMode /\ addMode'

\* A step of handleAddNote: the only handler that leaves event "addNote".
AddStep == idle /\ event'.op = "addNote"

\* A step of a confirmed handleDeleteNote.
DeleteStep == idle /\ event'.op = "deleteNote"

\* A step of handleSelectNote that changes the selection: no other handler
\* changes selectedId and leaves no effect pending.
SelectStep == idle /\ pending' = {} /\ selectedId' # selectedId

\* ------------------------------------------------------- claim vocabulary
\* Two characters that are the same letter, whatever their case.
sameLetter(a, b) ==
  \/ a = b
  \/ \E i \in 1..26 : \/ a = Upper[i] /\ b = Lower[i]
                      \/ a = Lower[i] /\ b = Upper[i]

\* q occurs in s as a substring, case ignored.
containsIgnoringCase(s, q) ==
  \E i \in 1..(Len(s) - Len(q) + 1) :
    \A k \in 1..Len(q) : sameLetter(s[i + k - 1], q[k])

noteContains(n, q) ==
  containsIgnoringCase(n.title, q) \/ containsIgnoringCase(n.content, q)

occurrences(x, seq) == Cardinality({i \in 1..Len(seq) : seq[i] = x})

isSortedDesc(view) ==
  \A i \in 1..Len(view) : \A j \in i..Len(view) : view[i].updated >= view[j].updated

\* The clock reading at which the note with this id was created, which
\* generateId wrote into the id.
createdAt(id) ==
  CHOOSE t \in 1..MaxClock : \E rand \in RandStrs : id = generateId(rand, t)

\* sub holds some of the entries of full, in the order full has them.
keepsOrder(sub, full) ==
  \E f \in [1..Len(sub) -> 1..Len(full)] :
    /\ \A i \in 1..Len(sub) : sub[i] = full[f[i]]
    /\ \A i, j \in 1..Len(sub) : i < j => f[i] < f[j]

\* ------------------------------------------------------------------ claims
\* C1: once handleAddNote and the effects it triggers have run, the new note
\* is in the collection, selectedId is the new note's id and the app is not
\* in the Creating mode, whatever the search query.
C1_CreateSelectsNew ==
  [][(EffectsStep /\ event.op = "addNote") =>
       /\ inSeq(event.id, idsOf(notes'))
       /\ selectedId' = event.id
       /\ ~addMode']_vars

\* C2: once a confirmed delete of the active note and its effects have run,
\* the selection is the neighbour of the deleted note if notes remain, and
\* is cleared only if the collection is empty, whatever the search query.
C2_DeleteSelectsNeighbour ==
  [][(EffectsStep /\ event.op = "deleteNote") =>
       IF notes' = <<>>
         THEN selectedId' = Null
         ELSE selectedId' = event.next /\ inSeq(selectedId', idsOf(notes'))]_vars

\* C3: when the effects run after a change of the collection or of the
\* query and the selected id is not in the filtered view, the selection
\* becomes the first note of the view, which has the greatest `updated`,
\* or none if the view is empty.
C3_FallbackToFirst ==
  [][EffectsStep =>
       LET view == getFilteredNotes(notes, query)
       IN  ~inSeq(selectedId, idsOf(view)) =>
             IF view = <<>>
               THEN selectedId' = Null
               ELSE /\ selectedId' = view[1].id
                    /\ \A i \in 1..Len(view) : view[1].updated >= view[i].updated]_vars

\* C3 witness: effects are pending, a note is selected that the view does
\* not show, and the view shows another note.
C3_Witness ==
  /\ ~idle
  /\ selectedId # Null
  /\ getFilteredNotes(notes, query) # <<>>
  /\ ~inSeq(selectedId, idsOf(getFilteredNotes(notes, query)))

\* C4: under a non-empty query the filtered view holds exactly the notes whose
\* title or content contains the query, case ignored, each as often as the
\* collection holds it, in descending order of `updated`.
C4_FilterExact ==
  query # <<>> =>
    LET view == getFilteredNotes(notes, query)
    IN  /\ \A i \in 1..Len(view) : noteContains(view[i], query)
        /\ \A i \in 1..Len(notes) :
             occurrences(notes[i], view) =
               IF noteContains(notes[i], query) THEN occurrences(notes[i], notes) ELSE 0
        /\ \A i \in 1..Len(view) : inSeq(view[i], notes)
        /\ isSortedDesc(view)

\* C4 witness: under the query "Ab" one note matches by its content only,
\* in another case, and another note does not match.
C4_Witness ==
  /\ query = <<"A","b">>
  /\ \E i, j \in 1..Len(notes) :
       /\ containsIgnoringCase(notes[i].content, query)
       /\ ~containsIgnoringCase(notes[i].title, query)
       /\ ~includes(notes[i].content, query)
       /\ ~noteContains(notes[j], query)
  /\ Len(getFilteredNotes(notes, query)) = 1

\* C5: under the empty query the view holds every note of the collection,
\* each as often as the collection holds it, in descending order of
\* `updated`, and computing it leaves the stored collection as it was.
C5_EmptyQueryAll ==
  [][query' = <<>> =>
       LET view == getFilteredNotes(notes', query')
       IN  /\ Len(view) = Len(notes')
           /\ \A i \in 1..Len(notes') :
                occurrences(notes'[i], view) = occurrences(notes'[i], notes')
           /\ isSortedDesc(view)
           /\ (EffectsStep => notes' = notes)]_vars

\* C5 witness: under the empty query the stored order is not the display
\* order: the view had to reorder.
C5_Witness ==
  /\ query = <<>>
  /\ idle
  /\ Len(notes) = 2
  /\ getFilteredNotes(notes, query) # notes
  /\ getFilteredNotes(notes, query) = <<notes[2], notes[1]>>

\* C6 as claimed: handleEditNote sets the `updated` of the edited note to a
\* timestamp strictly later than its previous one and leaves its id as it
\* was, also for two edits in the same clock tick.
C6_EditStrictlyLater ==
  [][EditStep =>
       \A i \in 1..Len(notes) :
         notes[i].id = event'.id =>
           /\ notes'[i].updated > notes[i].updated
           /\ notes'[i].id = notes[i].id]_vars

\* C6, amended: handleEditNote sets the `updated` of the edited note to the
\* reading of the clock at the edit, which is not earlier than its previous
\* `updated`, is later when the clock has advanced since the last reading,
\* and is the same for an edit in the tick of the previous stamp; the id is
\* left as it was.
C6_EditStampsNow ==
  [][EditStep =>
       /\ Len(notes') = Len(notes)
       /\ \A i \in 1..Len(notes) :
            notes[i].id = event'.id =>
              /\ notes'[i].updated = now'
              /\ notes'[i].updated >= notes[i].updated
              /\ (now' > now => notes'[i].updated > notes[i].updated)
              /\ notes'[i].id = notes[i].id]_vars

\* C6 witness: an edit has stamped a note later than the tick of its creation,
\* which its id records.
C6_Witness ==
  /\ event.op = "editNote"
  /\ \E i \in 1..Len(notes), rand \in RandStrs, t \in 1..MaxClock :
       /\ notes[i].id = event.id
       /\ notes[i].id = generateId(rand, t)
       /\ notes[i].updated > t

\* C7: no two notes of the collection have the same id, and no step changes
\* the id of a note that stays in the collection.
C7_IdsUniqueAndFixed ==
  [][/\ \A i, j \in 1..Len(notes') : i # j => notes'[i].id # notes'[j].id
     /\ Len(notes') = Len(notes) => idsOf(notes') = idsOf(notes)
     /\ Len(notes') = Len(notes) + 1 => Tail(idsOf(notes')) = idsOf(notes)]_vars

\* C8: a fresh mount that follows the save effect loads, from the entry the
\* effect wrote, the collection that was saved: the same notes, each with the
\* same id, title, content and `updated`.
C8_RoundTrip ==
  [][MountStep => (notes' = notes /\ notes' = loadNotes(localStorage))]_vars

\* C8 witness: the entry has been written and read back by a mount, for two
\* notes, one with a title that needs escaping.
C8_Witness ==
  /\ pending = {"notes", "query"}
  /\ Len(notes) = 2
  /\ \E i \in 1..Len(notes) : inSeq("\\", notes[i].title) /\ inSeq("\n", notes[i].title)
  /\ localStorage.text = JSONstringify(notes)

\* C9 as claimed: when the handler of a create, edit or delete has returned,
\* the persisted entry is the serialization of the current collection.
C9_PersistedAtReturn ==
  event.op \in {"addNote", "editNote", "deleteNote"} =>
    localStorage.has /\ localStorage.text = JSONstringify(notes)

\* C9, amended: once the effects that follow the handler of a create, edit
\* or delete have run, the persisted entry is the serialization of the full
\* current collection, the same notes in the same order; between the
\* handler's return and the effects it is the serialization of the previous
\* collection.
C9_PersistedAfterEffects ==
  idle => localStorage.has /\ localStorage.text = JSONstringify(notes)

\* C9 witness: the effects have run and the entry holds two notes that the
\* display would show in the other order.
C9_Witness ==
  /\ idle
  /\ Len(notes) = 2
  /\ notes[2].updated > notes[1].updated
  /\ localStorage.text = JSONstringify(notes)

\* C10 as claimed: after handleCancelAdd the selection is the one that held
\* when handleStartAdd entered the Creating mode, whatever happened between.
C10_CancelRestoresStart ==
  [][CancelStep => selectedId' = startSel]_vars

\* C10, amended: handleCancelAdd leaves the Creating mode and leaves the
\* selection as it was just before the cancel; that is the selection that held
\* when creation was started unless, in between, a note was picked
\* (handleSelectNote) or the selection effect ran after a search.
C10_CancelKeepsSelection ==
  [][/\ StartStep => (startSel' = selectedId /\ selectedId' = selectedId)
     /\ CancelStep => selectedId' = selectedId
     /\ (addMode /\ addMode' /\ selectedId' # selectedId) =>
          \/ idle /\ pending' = {} /\ inSeq(selectedId', idsOf(getFilteredNotes(notes, query)))
          \/ EffectsStep /\ event.op = "search"]_vars

\* C10 witness: in the Creating mode, with a selection that is no longer the
\* one that held when creation was started; Cancel is offered.
C10_Witness ==
  /\ idle
  /\ addMode
  /\ startSel # Null
  /\ selectedId # startSel
  /\ selectedId # Null

\* C11: picking a note in the list leads to Selected(id) from every state,
\* the Creating mode included: the note is selected and it is the note the
\* editor pane shows.
C11_PickShowsNote ==
  [][SelectStep =>
       /\ inSeq(selectedId', idsOf(notes'))
       /\ ~addMode'
       /\ editorShown']_vars

\* C12 as claimed: the stored collection is in insertion order: a note
\* created earlier stands before every note created later.
C12_InsertionOrder ==
  \A i, j \in 1..Len(notes) :
    i < j => createdAt(notes[i].id) <= createdAt(notes[j].id)

\* C12, amended: the stored collection is in reverse insertion order: a create
\* puts the new note first and keeps the others as they stood, an edit keeps
\* every position, a delete keeps the order of the notes that stay, and no
\* other step changes the collection; so a note created later never stands
\* after a note created earlier.
C12_NewestFirst ==
  [][/\ AddStep => (Head(notes') = newNote(event'.id, now') /\ Tail(notes') = notes)
     /\ EditStep => idsOf(notes') = idsOf(notes)
     /\ DeleteStep => (keepsOrder(notes', notes) /\ Len(notes') < Len(notes))
     /\ ~(AddStep \/ EditStep \/ DeleteStep) => notes' = notes
     /\ notes' # notes =>
          \A i, j \in 1..Len(notes') :
            i < j => createdAt(notes'[i].id) >= createdAt(notes'[j].id)]_vars

\* C12 witness: a create has put the new note before a note created at an
\* earlier tick.
C12_Witness ==
  /\ event.op = "addNote"
  /\ Len(notes) = 2
  /\ notes[1].id = event.id
  /\ createdAt(notes[1].id) > createdAt(notes[2].id)

\* C13: a delete the user declines changes nothing (handleDeleteNote returns
\* at line 114: the step leaves every variable as it was); a confirmed delete
\* removes exactly one note, the one with the given id, keeps every other
\* note as it was and in its order, and leaves the query, the Creating mode
\* and the persisted entry to the effects.
C13_DeleteRemovesOne ==
  [][DeleteStep =>
       /\ Len(notes') = Len(notes) - 1
       /\ \A i \in 1..Len(notes') : notes'[i].id # event'.id
       /\ keepsOrder(notes', notes)
       /\ UNCHANGED <<query, addMode, localStorage>>]_vars

\* C14: whenever the editor is shown and the effects have run, NoteEditor's
\* transient title and content are the stored title and content of the active
\* note, also after the active note was switched by a pick, a create, a
\* delete or the selection effect.
C14_EditorShowsActiveNote ==
  (idle /\ editorShown) =>
    /\ editor.id = selectedId
    /\ editor.title = selectedNote(notes, selectedId).title
    /\ editor.content = selectedNote(notes, selectedId).content

\* C14 witness: the editor shows the older of two notes with different
\* titles, a note the last create did not select: the active note was
\* switched to it.
C14_Witness ==
  /\ idle
  /\ editorShown
  /\ Len(notes) = 2
  /\ selectedId = notes[2].id
  /\ notes[1].id # notes[2].id
  /\ notes[1].title # notes[2].title
  /\ editor.title = notes[2].title

\* C15: handleEditNote is a partial patch: of the note with the given id it
\* changes the named field and `updated` only; the note's other field, every
\* other note, the number of notes and their order stay as they were, and an
\* id no note has changes nothing.
C15_PatchOneNote ==
  [][EditStep =>
       LET k == findIndex(notes, event'.id)
       IN  /\ Len(notes') = Len(notes)
           /\ \A i \in 1..Len(notes) : i # k => notes'[i] = notes[i]
           /\ notes'[k].id = notes[k].id
           /\ notes'[k].updated = now'
           /\ \/ notes'[k].title = notes[k].title /\ notes'[k].content \in EditVals
              \/ notes'[k].content = notes[k].content /\ notes'[k].title \in EditVals
           /\ \A field \in Fields, value \in EditVals :
                editedNotes(notes, Null, field, value, now') = notes]_vars

C17_EditKeepsSelection ==
  [][(EffectsStep /\ event.op = "editNote") =>
       /\ selectedId' = event.id
       /\ selectedId' = selectedId]_vars

\* C18 as claimed: after a create or an edit, the created or edited note is
\* the first entry of the view under the empty query, also when another
\* note carries the same `updated`.
C18_LatestIsFirst ==
  [][((AddStep \/ EditStep) /\ query' = <<>>) =>
       getFilteredNotes(notes', query')[1].id = event'.id]_vars

\* C18, amended: under the empty query and a clock that does not go back, a
\* created note is the first entry of the view, also when another note
\* carries the same `updated`; an edited note has the greatest `updated` and
\* comes after exactly the notes with the same `updated` that stand before it
\* in the stored collection, so it is the first entry when there is no such
\* note.
C18_LatestFirstButTies ==
  [][((AddStep \/ EditStep) /\ query' = <<>>) =>
       LET view == getFilteredNotes(notes', query')
           k == findIndex(notes', event'.id)
           tiedBefore == {j \in 1..(k - 1) : notes'[j].updated = notes'[k].updated}
       IN  /\ \A i \in 1..Len(notes') : notes'[i].updated <= notes'[k].updated
           /\ AddStep => (k = 1 /\ view[1] = notes'[1])
           /\ view[1 + Cardinality(tiedBefore)] = notes'[k]
           /\ \A p \in 1..Cardinality(tiedBefore) :
                \E j \in tiedBefore : view[p] = notes'[j]]_vars

\* C18 witness: an edit has stamped a note with the `updated` of a note that
\* stands before it in the stored collection, and the view shows the edited
\* note second.
C18_Witness ==
  /\ event.op = "editNote"
  /\ query = <<>>
  /\ Len(notes) = 2
  /\ notes[2].id = event.id
  /\ notes[1].id # event.id
  /\ notes[1].updated = notes[2].updated
  /\ getFilteredNotes(notes, query) = notes

====
